---- MODULE Spec2Model ----
(***************************************************************************)
(* State-machine model of the Spirc orchestrator, src/src/spirc/mod.rs:    *)
(* SpircState, SpircManager and the sources SpircManager::poll merges.     *)
(*                                                                         *)
(* One SpircManager is a record; the handlers are operators from a manager *)
(* record to the manager record after the handler.  Three fields of the    *)
(* record are recorders for the collaborators, cleared when a handler      *)
(* starts: sent (frames given to send_frame), sink (frames given to the    *)
(* publisher's start_send) and cmds (calls the Player received); a fourth, *)
(* clock, keeps the values session.time() returned to the handler.         *)
(* seq_log and pub_log keep the sequence numbers of all frames sent and    *)
(* published since construction.                                           *)
(*                                                                         *)
(* The publisher is assumed not to fail (start_send never returns Err).    *)
(***************************************************************************)
EXTENDS Integers, Sequences, FiniteSets, TLC

\* ---------------------------------------------------------------- bounds
MaxTime == 2       \* the wall clock runs from 1 to MaxTime
MaxSeq == 4        \* no handler runs that would push seq_nr beyond MaxSeq
MaxPending == 1    \* frames, and Player events, waiting for the loop of poll

\* ---------------------------------------------------------- u32 values
\* A u32 is kept as two 16-bit limbs <<hi, lo>>, value hi * Limb + lo, so
\* that 0xFFFFFFFF and the wrap of index + 1 are represented exactly.
Limb == 65536

U32(n) == <<n \div Limb, n % Limb>>

U32Max == <<Limb - 1, Limb - 1>>

\* x as usize, for the values that fit the model's integers
as_usize(x) == x[1] * Limb + x[2]

\* (x as usize) < n, for a vector length n: a value of 2^31 or more is
\* above every length the model's integers hold
u32_lt_len(x, n) == x[1] < Limb \div 2 /\ as_usize(x) < n

\* x + 1 on u32, wrapped (a build without overflow checks)
u32_wrapping_inc(x) ==
    IF x[2] < Limb - 1 THEN <<x[1], x[2] + 1>>
    ELSE IF x[1] < Limb - 1 THEN <<x[1] + 1, 0>>
    ELSE <<0, 0>>

\* x % n on u32, n > 0 small
u32_rem(x, n) == U32((((x[1] % n) * (Limb % n)) + (x[2] % n)) % n)

\* the mathematical (x + 1) mod n, without any width
MathIncMod(x, n) == ((((x[1] % n) * (Limb % n)) + (x[2] % n)) + 1) % n

\* ------------------------------------------------------------ identities
Endpoints == {"A", "B"}

Local == "A"

Other(e) == IF e = "A" THEN "B" ELSE "A"

Controller == "C"

\* --------------------------------------------------------------- tracks
\* util::SpotifyId: the identifier built from a raw gid, and back
SpotifyId_from_raw(gid) == <<"SpotifyId", gid>>

SpotifyId_to_raw(id) == id[2]

TrackRef(has, gid) == [has_gid |-> has, gid |-> gid]

\* protobuf State, default instance
State_new ==
    [status |-> "Stop", position_ms |-> 0, position_measured_at |-> 0,
     playing_track_index |-> U32(0), track |-> <<>>]

DeviceState_default == [is_active |-> FALSE, became_active_at |-> 0, volume |-> 0]

\* ------------------------------------------------------------ SpircState
SpircState_new ==
    [volume |-> 65535,
     is_active |-> FALSE,
     became_active_at |-> 0,
     status |-> "Stop",
     index |-> U32(0),
     tracks |-> <<>>,
     update_id |-> 0,
     position_ms |-> 0,
     position_measured_at |-> 0]

RECURSIVE gids_of(_)
gids_of(refs) ==
    IF refs = <<>> THEN <<>>
    ELSE LET rest == gids_of(Tail(refs))
         IN  IF Head(refs).has_gid
             THEN <<SpotifyId_from_raw(Head(refs).gid)>> \o rest
             ELSE rest

\* load_tracks that keeps the old index
load_tracks_keep_index(s, state) ==
    [s EXCEPT !.tracks = gids_of(state.track)]

load_tracks(s, state) ==
    [s EXCEPT !.index = state.playing_track_index,
              !.tracks = gids_of(state.track)]

\* ---------------------------------------------------------- SpircManager
SpircManager_new(id) ==
    [ident |-> id,
     seq_nr |-> 0,
     subscription |-> FALSE,
     sender |-> FALSE,
     state |-> SpircState_new,
     fault |-> "none",
     sent |-> <<>>,
     sink |-> <<>>,
     cmds |-> <<>>,
     clock |-> <<>>,
     seq_log |-> <<>>,
     pub_log |-> <<>>]

\* filter without the test of the sender
filter_no_self(ident, frame) ==
    Cardinality(frame.recipient) = 0 \/ ident \in frame.recipient

\* the filter of build_subscription, lines 115-119
filter(ident, frame) ==
    /\ frame.ident # ident
    /\ (Cardinality(frame.recipient) = 0 \/ ident \in frame.recipient)

\* next_seq that returns the counter before the increment has a repeat: here
\* the increment is skipped every second time
next_seq_repeat(m) == [m EXCEPT !.seq_nr = IF @ = 1 THEN @ ELSE @ + 1]

next_seq(m) == [m EXCEPT !.seq_nr = @ + 1]

send_frame(m, frame) ==
    IF m.sender
    THEN [m EXCEPT !.sent = Append(@, frame),
                   !.seq_log = Append(@, frame.seq_nr),
                   !.sink = Append(@, frame),
                   !.pub_log = Append(@, frame.seq_nr)]
    ELSE [m EXCEPT !.sent = Append(@, frame),
                   !.seq_log = Append(@, frame.seq_nr)]

\* player_state that reports the first track as the playing one
player_state_first_index(m) ==
    [status |-> m.state.status,
     position_ms |-> m.state.position_ms,
     position_measured_at |-> m.state.position_measured_at,
     playing_track_index |-> U32(0),
     track |-> [i \in 1..Len(m.state.tracks) |->
                   TrackRef(TRUE, SpotifyId_to_raw(m.state.tracks[i]))]]

player_state(m) ==
    [status |-> m.state.status,
     position_ms |-> m.state.position_ms,
     position_measured_at |-> m.state.position_measured_at,
     playing_track_index |-> m.state.index,
     track |-> [i \in 1..Len(m.state.tracks) |->
                   TrackRef(TRUE, SpotifyId_to_raw(m.state.tracks[i]))]]

\* protobuf_init! sets the fields in the order written: became_active_at is
\* set from the state at line 242 and set again, to 0, at line 247.
device_state(m) ==
    [is_active |-> m.state.is_active,
     became_active_at |-> 0,
     volume |-> m.state.volume]

\* command(cmd).recipient(r).state(st, update_id).send() of the Command
\* Builder: stamps the sender, the next sequence number and the device
\* descriptor, then hands the frame to send_frame.
CommandSender_send(m, typ, recipient, state, update_id) ==
    LET m1 == next_seq(m)
        frame == [typ |-> typ,
                  ident |-> m1.ident,
                  recipient |-> recipient,
                  seq_nr |-> m1.seq_nr,
                  state_update_id |-> update_id,
                  device_state |-> device_state(m1),
                  volume |-> 0,
                  state |-> state]
    IN  send_frame(m1, frame)

notify(m, recipient) ==
    CommandSender_send(m, "Notify", recipient, player_state(m), m.state.update_id)

\* handle_connection that opens the subscription and keeps the old publisher
handle_connection_keep_sender(m) ==
    CommandSender_send([m EXCEPT !.subscription = TRUE], "Hello", {}, State_new, 0)

handle_connection(m) ==
    CommandSender_send([m EXCEPT !.subscription = TRUE, !.sender = TRUE],
                       "Hello", {}, State_new, 0)

\* the clock merge without the comparison
clock_merge_always(m, frame) ==
    [m EXCEPT !.state.update_id = frame.state_update_id]

\* process_frame, lines 142-144
clock_merge(m, frame) ==
    IF frame.state_update_id > m.state.update_id
    THEN [m EXCEPT !.state.update_id = frame.state_update_id]
    ELSE m

\* the handoff condition with >= for >
handoff_due_ge(m, frame) ==
    /\ frame.device_state.is_active
    /\ m.state.is_active
    /\ frame.device_state.became_active_at >= m.state.became_active_at

\* process_frame, the condition of lines 146-148
handoff_due(m, frame) ==
    /\ frame.device_state.is_active
    /\ m.state.is_active
    /\ frame.device_state.became_active_at > m.state.became_active_at

\* process_frame, lines 146-155
handoff_check(m, frame) ==
    IF handoff_due(m, frame)
    THEN notify([m EXCEPT !.state.is_active = FALSE,
                          !.state.status = "Stop",
                          !.cmds = Append(@, <<"stop">>)], {})
    ELSE m

\* self.session.time(): the handler's next read of the wall clock; ts holds
\* the values the clock has at the reads of one handler, in their order
session_time(m, ts) == [m EXCEPT !.clock = Append(@, ts[Len(@) + 1])]

\* the value that read returned
time_read(m) == m.clock[Len(m.clock)]

\* the Load arm stamping became_active_at on every Load
load_claim_always(m, ts) ==
    LET m1 == session_time(m, ts)
        m2 == session_time([m1 EXCEPT !.state.update_id = time_read(m1)], ts)
    IN  [m2 EXCEPT !.state.is_active = TRUE,
                   !.state.became_active_at = time_read(m2)]

\* process_frame, lines 167-172: the clock and the claim of the active role
load_claim(m, ts) ==
    LET m1 == session_time(m, ts)
        m2 == [m1 EXCEPT !.state.update_id = time_read(m1)]
    IN  IF ~m2.state.is_active
        THEN LET m3 == session_time(m2, ts)
             IN  [m3 EXCEPT !.state.is_active = TRUE,
                            !.state.became_active_at = time_read(m3)]
        ELSE m2

\* process_frame, lines 176-184
load_play(m, ts) ==
    IF u32_lt_len(m.state.index, Len(m.state.tracks))
    THEN LET m1 == session_time(
                     [m EXCEPT !.cmds = Append(@, <<"load", m.state.tracks[as_usize(m.state.index) + 1]>>),
                               !.state.status = "Play",
                               !.state.position_ms = 0], ts)
         IN  [m1 EXCEPT !.state.position_measured_at = time_read(m1)]
    ELSE m

\* process_frame, the Load arm, lines 166-187
load_arm(m, frame, ts) ==
    LET m1 == load_claim(m, ts)
        m2 == [m1 EXCEPT !.state = load_tracks(m1.state, frame.state)]
    IN  notify(load_play(m2, ts), {})

\* process_frame, the Volume arm, lines 161-164
volume_arm(m, frame) ==
    notify([m EXCEPT !.state.volume = frame.volume % 65536], {})

\* process_frame answering a Hello with a broadcast
process_frame_hello_broadcast(m, frame, ts) ==
    LET m1 == handoff_check(clock_merge(m, frame), frame)
    IN  CASE frame.typ = "Hello" -> notify(m1, {})
          [] frame.typ = "Volume" -> volume_arm(m1, frame)
          [] frame.typ = "Load" -> load_arm(m1, frame, ts)
          [] OTHER -> m1

process_frame(m, frame, ts) ==
    LET m1 == handoff_check(clock_merge(m, frame), frame)
    IN  CASE frame.typ = "Hello" -> notify(m1, {frame.ident})
          [] frame.typ = "Volume" -> volume_arm(m1, frame)
          [] frame.typ = "Load" -> load_arm(m1, frame, ts)
          [] OTHER -> m1

\* poll, the TrackEnd arm, line 327: (index + 1) % tracks.len() as u32.
\* index + 1 panics at 0xFFFFFFFF in a build with overflow checks and wraps
\* in one without; the remainder panics when the vector is empty.
track_end_index(m, overflow_checks) ==
    IF m.state.index = U32Max /\ overflow_checks
    THEN [fault |-> "overflow", index |-> m.state.index]
    ELSE IF Len(m.state.tracks) = 0
    THEN [fault |-> "div_by_zero", index |-> m.state.index]
    ELSE [fault |-> "none",
          index |-> u32_rem(u32_wrapping_inc(m.state.index), Len(m.state.tracks))]

\* poll, the TrackEnd arm, lines 326-337
track_end(m, ts, overflow_checks) ==
    LET r == track_end_index(m, overflow_checks)
    IN  IF r.fault # "none"
        THEN [m EXCEPT !.fault = r.fault]
        ELSE LET m1 == session_time(
                         [m EXCEPT !.state.index = r.index,
                                   !.cmds = Append(@, <<"load", m.state.tracks[as_usize(r.index) + 1]>>)],
                         ts)
                 m2 == session_time([m1 EXCEPT !.state.update_id = time_read(m1),
                                               !.state.position_ms = 0], ts)
             IN  notify([m2 EXCEPT !.state.position_measured_at = time_read(m2)], {})

\* poll, the Playing arm, lines 338-341
playing(m, position_ms, ts) ==
    LET m1 == session_time([m EXCEPT !.state.position_ms = position_ms], ts)
    IN  [m1 EXCEPT !.state.position_measured_at = time_read(m1)]

\* a handler starts with empty recorders
Begin(m) == [m EXCEPT !.sent = <<>>, !.sink = <<>>, !.cmds = <<>>, !.clock = <<>>]

\* ---------------------------------------------------------------- inputs
InFrame(typ, ident, recipient, update_id, dev, volume, state) ==
    [typ |-> typ, ident |-> ident, recipient |-> recipient, seq_nr |-> 0,
     state_update_id |-> update_id, device_state |-> dev, volume |-> volume,
     state |-> state]

NoFrame == InFrame("none", "none", {}, 0, DeviceState_default, 0, State_new)

OtherKinds == {"Notify", "Play"}

UpdateIds == {0, MaxTime + 2}

PeerDevices ==
    {[is_active |-> FALSE, became_active_at |-> MaxTime + 1, volume |-> 0]} \cup
    {[is_active |-> TRUE, became_active_at |-> b, volume |-> 0] : b \in {0, 2, MaxTime + 1}}

\* a volume beyond 16 bits: get_volume() is a u32
Volumes == {65536 + 9}

NoGid == <<TrackRef(FALSE, 0)>>

Mixed == <<TrackRef(TRUE, 1), TrackRef(FALSE, 0), TrackRef(TRUE, 2)>>

Three == <<TrackRef(TRUE, 1), TrackRef(TRUE, 2), TrackRef(TRUE, 3)>>

LoadState(tl, i) == [State_new EXCEPT !.playing_track_index = i, !.track = tl]

LoadStates ==
    {LoadState(<<>>, U32(0)), LoadState(NoGid, U32(1)), LoadState(Mixed, U32(2)),
     LoadState(Three, U32(1)), LoadState(Three, U32Max)}

Idle == [is_active |-> FALSE, became_active_at |-> MaxTime + 1, volume |-> 0]

Claimed == [is_active |-> TRUE, became_active_at |-> MaxTime + 1, volume |-> 0]

\* the frames a peer addresses to the local endpoint
PassFrames ==
    {InFrame("Hello", "B", r, 0, d, 0, State_new) : r \in {{}, {Local}}, d \in {Idle, Claimed}}
    \cup
    {InFrame("Notify", "B", {}, u, d, 0, State_new) : u \in UpdateIds, d \in PeerDevices}
    \cup
    {InFrame("Notify", "B", {Local, Controller}, MaxTime + 2, Claimed, 0, State_new)}
    \cup
    {InFrame("Play", "B", {}, 0, d, 0, State_new) : d \in {Idle, Claimed}}
    \cup
    {InFrame("Volume", "B", {}, 0, Idle, v, State_new) : v \in Volumes}
    \cup
    {InFrame("Volume", "B", {}, MaxTime + 2, Claimed, v, State_new) : v \in Volumes}
    \cup
    {InFrame("Load", "B", {Local}, u, Idle, 0, st) : u \in UpdateIds, st \in LoadStates}
    \cup
    {InFrame("Load", "B", {Local}, 0, Claimed, 0, st) : st \in LoadStates}

\* frames of the topic that are not for the local endpoint: its own frames
\* echoed by the topic, and frames addressed to other endpoints
ForeignFrames ==
    {InFrame(k, Local, r, MaxTime + 2, Claimed, 7, LoadState(Three, U32(0))) :
        k \in {"Hello", "Load"}, r \in {{}, {Local}}}
    \cup
    {InFrame("Load", "B", r, MaxTime + 2, Claimed, 7, LoadState(Three, U32(0))) :
        r \in {{"B"}, {"B", Controller}}}

RawFrames == PassFrames \cup ForeignFrames

PositionValues == {7}

\* ----------------------------------------------------------------- state
VARIABLES
    sm,      \* sm[e]: the SpircManager of endpoint e
    now,     \* the last value session.time() returned
    last,    \* the handler that ran last, with its input
    inbox,   \* inbox[e]: frames of the topic waiting in e's subscription
    drv      \* the sources and the publisher of the local endpoint's poll loop

vars == <<sm, now, last, inbox, drv>>

Last(op, e, frame) == [op |-> op, e |-> e, frame |-> frame]

\* what the sources produced in one iteration of the loop of poll
\* and what its publisher did with the frames handed to it
NoTick ==
    [conn |-> FALSE, frame |-> FALSE, frame_gen |-> 0, pev |-> "none",
     published |-> <<>>, lost |-> <<>>]

\* The collaborators poll reads and writes: the connection source (connq
\* Connected events waiting), the subscription (inq, frames tagged with the
\* generation of the subscription they arrived in), the Player's events
\* (playerq) and the publisher: one slot for a frame in flight, kept as
\* <<sequence number, generation of the publisher>>.  gen counts the handles
\* opened; yielded says that poll returned NotReady; tick is the record of
\* the last iteration.
Driver_new ==
    [connq |-> 0, inq |-> <<>>, playerq |-> <<>>, gen |-> 0,
     slot |-> <<>>, yielded |-> FALSE, tick |-> NoTick]

Init ==
    /\ sm = [e \in Endpoints |-> SpircManager_new(e)]
    /\ now = 1
    /\ last = Last("new", Local, NoFrame)
    /\ inbox = [e \in Endpoints |-> <<>>]
    /\ drv = Driver_new

Alive(e) == sm[e].fault = "none"

\* the last value session.time() returned, after a handler left m
clock_after(m) == IF m.clock = <<>> THEN now ELSE time_read(m)

Bounded(e) == sm'[e].seq_nr <= MaxSeq

\* poll, lines 303-308: the connection source yields Connected
ConnectedOf(e) ==
    /\ Alive(e)
    /\ sm' = [sm EXCEPT ![e] = handle_connection(Begin(sm[e]))]
    /\ Bounded(e)
    /\ last' = Last("handle_connection", e, NoFrame)
    /\ now' = now

\* poll, lines 310-319: the subscription yields a frame of the topic; the
\* filter decides whether process_frame sees it
ReceiveOf(e, frame, ts) ==
    /\ Alive(e)
    /\ sm[e].subscription
    /\ IF filter(sm[e].ident, frame)
       THEN /\ sm' = [sm EXCEPT ![e] = process_frame(Begin(sm[e]), frame, ts)]
            /\ last' = Last("process_frame", e, frame)
       ELSE /\ sm' = [sm EXCEPT ![e] = Begin(sm[e])]
            /\ last' = Last("filtered", e, frame)
    /\ now' = clock_after(sm'[e])
    /\ Bounded(e)

\* poll, lines 326-337: the Player yields TrackEnd
TrackEndOf(e, ts, overflow_checks) ==
    /\ Alive(e)
    /\ sm' = [sm EXCEPT ![e] = track_end(Begin(sm[e]), ts, overflow_checks)]
    /\ Bounded(e)
    /\ last' = Last("TrackEnd", e, NoFrame)
    /\ now' = clock_after(sm'[e])

\* poll, lines 338-341: the Player yields Playing(position_ms)
PlayingOf(e, position_ms, ts) ==
    /\ Alive(e)
    /\ sm' = [sm EXCEPT ![e] = playing(Begin(sm[e]), position_ms, ts)]
    /\ last' = Last("Playing", e, NoFrame)
    /\ now' = clock_after(sm'[e])

Times == now..MaxTime

\* the values a clock that does not run backwards has at k reads in a row,
\* the first of them at lo or later
RECURSIVE ClockReadsFrom(_, _)
ClockReadsFrom(lo, k) ==
    IF k = 0 THEN {<<>>}
    ELSE UNION {{<<t>> \o r : r \in ClockReadsFrom(t, k - 1)} : t \in lo..MaxTime}

ClockReads(k) == ClockReadsFrom(now, k)

\* a handler reads the clock at most five times: lines 167, 171 and 183 of
\* a Load, lines 331 and 333 of a TrackEnd
Unread == [i \in 1..5 |-> now]

\* the clock reads of process_frame on the frame: none unless it is a Load,
\* then line 167, and line 171 and line 183 when their branches are taken
FrameTimes(m, frame) ==
    IF frame.typ = "Load"
    THEN ClockReads(Len(process_frame(Begin(m), frame, Unread).clock))
    ELSE ClockReads(0)

\* the builds that differ on a TrackEnd: with and without overflow checks
\* when index + 1 overflows, and not at all otherwise
Builds(m) == IF m.state.index = U32Max THEN BOOLEAN ELSE {TRUE}

\* ------------------------------------------- one endpoint, open environment
Connected == ConnectedOf(Local) /\ UNCHANGED <<inbox, drv>>

Receive ==
    \E frame \in RawFrames : \E ts \in FrameTimes(sm[Local], frame) :
        ReceiveOf(Local, frame, ts) /\ UNCHANGED <<inbox, drv>>

TrackEnd ==
    \E oc \in Builds(sm[Local]) :
    \E ts \in ClockReads(Len(track_end(Begin(sm[Local]), Unread, oc).clock)) :
        TrackEndOf(Local, ts, oc) /\ UNCHANGED <<inbox, drv>>

Playing ==
    \E p \in PositionValues, ts \in ClockReads(1) :
        PlayingOf(Local, p, ts) /\ UNCHANGED <<inbox, drv>>

Next == Connected \/ Receive \/ TrackEnd \/ Playing

Spec == Init /\ [][Next]_vars

\* ------------------------------------------- two endpoints on one topic
\* A Load a controller addresses to endpoint e; the controller is not a
\* player and reports itself inactive.
ControllerLoads(e) ==
    {InFrame("Load", Controller, {e}, 0, DeviceState_default, 0, LoadState(Three, U32(0)))}

\* the topic hands what e published in this step to the other endpoint, if
\* that one holds a subscription
Published(e, q) ==
    IF sm[Other(e)].subscription /\ Alive(Other(e))
    THEN [q EXCEPT ![Other(e)] = @ \o sm'[e].sink]
    ELSE q

PairConnected ==
    \E e \in Endpoints : ConnectedOf(e) /\ inbox' = Published(e, inbox) /\ UNCHANGED drv

PairLoad ==
    \E e \in Endpoints : \E frame \in ControllerLoads(e) :
    \E ts \in FrameTimes(sm[e], frame) :
        ReceiveOf(e, frame, ts) /\ inbox' = Published(e, inbox) /\ UNCHANGED drv

PairDeliver ==
    \E e \in Endpoints :
        /\ inbox[e] # <<>>
        /\ \E ts \in FrameTimes(sm[e], Head(inbox[e])) : ReceiveOf(e, Head(inbox[e]), ts)
        /\ inbox' = Published(e, [inbox EXCEPT ![e] = Tail(@)])
        /\ UNCHANGED drv

NextPair == PairConnected \/ PairLoad \/ PairDeliver

SpecPair == Init /\ [][NextPair]_vars

\* ------------------------------------------------- the loop of poll, by tick
\* The publisher: start_send takes a frame when the slot is free and hands
\* it back (AsyncSink::NotReady) when it is not; send_frame, line 204, drops
\* what is handed back.
RECURSIVE start_send(_, _)
start_send(d, frames) ==
    IF frames = <<>> THEN d
    ELSE LET x == <<Head(frames).seq_nr, d.gen>>
         IN  start_send(IF d.slot = <<>>
                        THEN [d EXCEPT !.slot = <<x>>]
                        ELSE [d EXCEPT !.tick.lost = Append(@, x)],
                        Tail(frames))

\* poll, lines 321-323: poll_complete publishes the frame in flight
poll_complete(m, d) ==
    IF m.sender THEN [d EXCEPT !.tick.published = @ \o d.slot, !.slot = <<>>] ELSE d

\* the frames m1 handed to the publisher after m0
Handed(m0, m1) == SubSeq(m1.sink, Len(m0.sink) + 1, Len(m1.sink))

\* the filtered stream skips the frames its filter rejects
RECURSIVE skip_filtered(_, _)
skip_filtered(ident, q) ==
    IF q = <<>> \/ filter(ident, Head(q).frame) THEN q
    ELSE skip_filtered(ident, Tail(q))

\* poll, lines 303-308: a Connected event replaces the subscription and the
\* publisher (what waited in the old ones is gone) and sends the Hello;
\* fresh is what the new subscription yields at once
poll_connection(c, fresh) ==
    IF c.d.connq = 0 THEN c
    ELSE LET m1 == handle_connection(c.m)
             d1 == [c.d EXCEPT !.connq = @ - 1,
                               !.gen = @ + 1,
                               !.inq = [i \in 1..Len(fresh) |->
                                           [gen |-> c.d.gen + 1, frame |-> fresh[i]]],
                               !.tick.lost = @ \o c.d.slot,
                               !.slot = <<>>,
                               !.tick.conn = TRUE]
         IN  [m |-> m1, d |-> start_send(d1, Handed(c.m, m1))]

\* poll, lines 310-319
poll_subscription(c, ts) ==
    IF ~c.m.subscription THEN c
    ELSE LET q == skip_filtered(c.m.ident, c.d.inq)
         IN  IF q = <<>> THEN [c EXCEPT !.d.inq = q]
             ELSE LET m1 == process_frame(c.m, Head(q).frame, ts)
                      d1 == [c.d EXCEPT !.inq = Tail(q),
                                        !.tick.frame = TRUE,
                                        !.tick.frame_gen = Head(q).gen]
                  IN  [m |-> m1, d |-> start_send(d1, Handed(c.m, m1))]

\* poll, lines 321-323
poll_sender(c) == [c EXCEPT !.d = poll_complete(c.m, c.d)]

\* poll, lines 325-343
poll_player(c, ts, overflow_checks) ==
    IF c.d.playerq = <<>> THEN c
    ELSE LET ev == Head(c.d.playerq)
             d1 == [c.d EXCEPT !.playerq = Tail(@), !.tick.pev = ev[1]]
         IN  IF ev[1] = "TrackEnd"
             THEN LET m1 == track_end(c.m, ts, overflow_checks)
                  IN  [m |-> m1, d |-> start_send(d1, Handed(c.m, m1))]
             ELSE [m |-> playing(c.m, ev[2], ts), d |-> d1]

\* poll, lines 301 and 345-347: progress is set by the connection arm, the
\* subscription arm and the TrackEnd arm, and poll returns NotReady without
\* progress
progress(tick) == tick.conn \/ tick.frame \/ tick.pev = "TrackEnd"

\* one iteration of the loop with the subscription polled before the
\* connection source
poll_iteration_frame_first(m, d, fresh, ts, overflow_checks) ==
    LET c0 == [m |-> Begin(m), d |-> [d EXCEPT !.tick = NoTick]]
        c1 == poll_connection(poll_subscription(c0, ts), fresh)
        c3 == poll_player(poll_sender(c1), ts, overflow_checks)
    IN  [c3 EXCEPT !.d.yielded = ~progress(c3.d.tick)]

\* one iteration of the loop of poll, lines 300-348
poll_iteration(m, d, fresh, ts, overflow_checks) ==
    LET c0 == [m |-> Begin(m), d |-> [d EXCEPT !.tick = NoTick]]
        c1 == poll_connection(c0, fresh)
        c2 == poll_subscription(c1, ts)
        c3 == poll_player(poll_sender(c2), ts, overflow_checks)
    IN  [c3 EXCEPT !.d.yielded = ~progress(c3.d.tick)]

\* frames of a peer for the tick driver
TickFrames ==
    {InFrame("Hello", "B", {}, 0, Claimed, 0, State_new),
     InFrame("Load", "B", {Local}, 0, Idle, 0, LoadState(Three, U32(1))),
     InFrame("Load", Local, {}, 0, Idle, 0, LoadState(Three, U32(1)))}

\* what a subscription just opened can yield at its first poll
FreshFrames == {<<>>, <<InFrame("Hello", "B", {}, 0, Idle, 0, State_new)>>}

PlayerEvents == {<<"TrackEnd">>} \cup {<<"Playing", p>> : p \in PositionValues}

\* the connection source gets a Connected event
EnvConnected ==
    /\ drv.connq = 0
    /\ drv' = [drv EXCEPT !.connq = 1]
    /\ UNCHANGED <<sm, now, last, inbox>>

\* the topic delivers a frame to the subscription
EnvFrame ==
    \E frame \in TickFrames :
        /\ sm[Local].subscription
        /\ Len(drv.inq) < MaxPending
        /\ drv' = [drv EXCEPT !.inq = Append(@, [gen |-> drv.gen, frame |-> frame])]
        /\ UNCHANGED <<sm, now, last, inbox>>

\* the Player emits an event
EnvPlayer ==
    \E ev \in PlayerEvents :
        /\ Len(drv.playerq) < MaxPending
        /\ drv' = [drv EXCEPT !.playerq = Append(@, ev)]
        /\ UNCHANGED <<sm, now, last, inbox>>

\* the clock reads of one iteration
TickTimes(fresh, oc) ==
    ClockReads(Len(poll_iteration(sm[Local], drv, fresh, Unread, oc).m.clock))

\* the builds that differ in one iteration: Builds of the manager its Player
\* arm sees, after the connection arm and the subscription arm
TickBuilds(fresh) ==
    LET c0 == [m |-> Begin(sm[Local]), d |-> [drv EXCEPT !.tick = NoTick]]
    IN  Builds(poll_subscription(poll_connection(c0, fresh), Unread).m)

\* poll runs one iteration of its loop
Tick ==
    \E fresh \in (IF drv.connq > 0 THEN FreshFrames ELSE {<<>>}) :
    \E oc \in TickBuilds(fresh) :
    \E ts \in TickTimes(fresh, oc) :
        LET c == poll_iteration(sm[Local], drv, fresh, ts, oc)
        IN  /\ Alive(Local)
            /\ sm' = [sm EXCEPT ![Local] = c.m]
            /\ Bounded(Local)
            /\ drv' = c.d
            /\ now' = clock_after(c.m)
            /\ last' = Last("tick", Local, NoFrame)
            /\ UNCHANGED inbox

NextTick == EnvConnected \/ EnvFrame \/ EnvPlayer \/ Tick

SpecTick == Init /\ [][NextTick]_vars

\* ---------------------------------------------------------------- claims
Max(a, b) == IF a >= b THEN a ELSE b

\* the Player calls of the last handler that are loads
Loads(m) == SelectSeq(m.cmds, LAMBDA c : c[1] = "load")

Stops(m) == SelectSeq(m.cmds, LAMBDA c : c[1] = "stop")

IsBroadcastNotify(frame) == frame.typ = "Notify" /\ frame.recipient = {}

\* the identifiers of the track references that carry one, in order
ValidTracks(refs) ==
    LET kept == SelectSeq(refs, LAMBDA r : r.has_gid)
    IN  [i \in 1..Len(kept) |-> SpotifyId_from_raw(kept[i].gid)]

\* C1: no operation lowers the local update_id.
C1_UpdateIdNeverDecreases ==
    [][sm'[Local].state.update_id >= sm[Local].state.update_id]_vars

\* C2: in the two-endpoint system, when an active endpoint a processes a
\* Notify in which the other endpoint reports itself active, and the other
\* endpoint claimed the role at a later clock value than a, then a ends
\* inactive and Stopped.
C2_LaterClaimDemotes ==
    [][\A a \in Endpoints :
          (/\ last'.op = "process_frame" /\ last'.e = a
           /\ last'.frame.typ = "Notify" /\ last'.frame.ident = Other(a)
           /\ last'.frame.device_state.is_active
           /\ sm[a].state.is_active
           /\ sm[Other(a)].state.is_active
           /\ sm[Other(a)].state.became_active_at > sm[a].state.became_active_at)
          => (~sm'[a].state.is_active /\ sm'[a].state.status = "Stop")]_vars

\* C3: process_frame on a frame of a kind without kind-specific handling:
\* if the frame reports an active sender with a became_active_at strictly
\* greater than the local one and the local state is active, the local state
\* ends inactive and Stopped, the Player receives one stop and one broadcast
\* Notify is sent; otherwise is_active and status are unchanged, the Player
\* receives nothing and nothing is sent.
C3_ActiveHandoff ==
    [][(last'.op = "process_frame" /\ last'.frame.typ \in OtherKinds) =>
          LET f == last'.frame
              m == sm[Local]
              n == sm'[Local]
          IN  IF /\ f.device_state.is_active
                 /\ m.state.is_active
                 /\ f.device_state.became_active_at > m.state.became_active_at
              THEN /\ n.state.is_active = FALSE
                   /\ n.state.status = "Stop"
                   /\ n.cmds = << <<"stop">> >>
                   /\ Len(n.sent) = 1
                   /\ IsBroadcastNotify(n.sent[1])
              ELSE /\ n.state.is_active = m.state.is_active
                   /\ n.state.status = m.state.status
                   /\ n.cmds = <<>>
                   /\ n.sent = <<>>]_vars

C3_Witness ==
    /\ last.op = "process_frame"
    /\ last.frame.typ \in OtherKinds
    /\ last.frame.device_state.is_active
    /\ sm[Local].cmds = << <<"stop">> >>
    /\ ~sm[Local].state.is_active
    /\ Len(sm[Local].sent) = 1

\* C4: process_frame never sees a frame of the endpoint's own identity nor
\* a frame with a non-empty recipient set that lacks the identity; every
\* other frame of the subscription is dispatched to process_frame.
C4_Filtering ==
    LET f == last.frame
        id == sm[last.e].ident
    IN  /\ last.op = "process_frame" =>
              (f.ident # id /\ (f.recipient = {} \/ id \in f.recipient))
        /\ last.op = "filtered" =>
              (f.ident = id \/ (f.recipient # {} /\ id \notin f.recipient))

C4_Witness ==
    /\ last.op = "filtered"
    /\ last.frame.ident = sm[Local].ident
    /\ last.frame.recipient = {Local}

\* C5: the k-th frame an orchestrator sends carries sequence number k, and
\* so does the k-th frame handed to the publisher.
C5_Sequencing ==
    LET m == sm[Local]
    IN  /\ Len(m.seq_log) = m.seq_nr
        /\ \A k \in 1..Len(m.seq_log) : m.seq_log[k] = k
        /\ \A k \in 1..Len(m.pub_log) : m.pub_log[k] = k

C5_Witness ==
    /\ Len(sm[Local].pub_log) >= 3
    /\ Len(sm[Local].sent) = 2

\* C6 as stated: after process_frame the local update_id is the maximum of
\* the local update_id before it and the frame's state_update_id.
C6_ClockMerge_Original ==
    [][last'.op = "process_frame" =>
          sm'[Local].state.update_id =
              Max(sm[Local].state.update_id, last'.frame.state_update_id)]_vars

\* C6, amended: after process_frame on a frame of a kind other than Load the
\* local update_id is the maximum of the local update_id before it and the
\* frame's state_update_id; after a Load it is the wall-clock value the Load
\* handling read first.
C6_ClockMerge ==
    [][last'.op = "process_frame" =>
          sm'[Local].state.update_id =
              IF last'.frame.typ = "Load" THEN sm'[Local].clock[1]
              ELSE Max(sm[Local].state.update_id, last'.frame.state_update_id)]_vars

C6_Witness ==
    /\ last.op = "process_frame"
    /\ last.frame.typ = "Notify"
    /\ last.frame.state_update_id > now
    /\ sm[Local].state.is_active
    /\ sm[Local].state.update_id = last.frame.state_update_id

\* what C7 states of the track list, the index, the Player and the Notify
C7_Common(f, m, n) ==
    LET tl == ValidTracks(f.state.track)
        idx == f.state.playing_track_index
    IN  /\ n.state.tracks = tl
        /\ n.state.index = idx
        /\ Len(n.sent) = 1 + Len(Stops(n))
        /\ IsBroadcastNotify(n.sent[Len(n.sent)])
        /\ IF idx[1] = 0 /\ idx[2] < Len(tl)
           THEN /\ Loads(n) = << <<"load", tl[idx[2] + 1]>> >>
                /\ n.state.status = "Play"
                /\ n.state.position_ms = 0
           ELSE /\ Loads(n) = <<>>
                /\ n.state.position_ms = m.state.position_ms

\* C7 as stated: a Load with an index out of bounds leaves the status as it
\* was before process_frame.
C7_LoadSemantics_Original ==
    [][(last'.op = "process_frame" /\ last'.frame.typ = "Load") =>
          LET f == last'.frame
              m == sm[Local]
              n == sm'[Local]
          IN  /\ C7_Common(f, m, n)
              /\ Loads(n) = <<>> => n.state.status = m.state.status]_vars

\* C7, amended: after process_frame handles a Load, track_list is the
\* frame's track references that carry an identifier, in order, and
\* track_index is the attached index; with the index in bounds the Player
\* receives load(track_list[track_index]), status is Playing and position_ms
\* is 0; otherwise the Player receives no load, position_ms is unchanged and
\* status is unchanged unless the same frame triggered the active handoff,
\* which leaves it Stopped; the Load handling sends one broadcast Notify.
C7_LoadSemantics ==
    [][(last'.op = "process_frame" /\ last'.frame.typ = "Load") =>
          LET f == last'.frame
              m == sm[Local]
              n == sm'[Local]
              demoted == /\ f.device_state.is_active
                         /\ m.state.is_active
                         /\ f.device_state.became_active_at > m.state.became_active_at
          IN  /\ C7_Common(f, m, n)
              /\ Loads(n) = <<>> =>
                    n.state.status = IF demoted THEN "Stop" ELSE m.state.status]_vars

C7_Witness ==
    /\ last.op = "process_frame"
    /\ last.frame.typ = "Load"
    /\ last.frame.state.track = Three
    /\ last.frame.state.playing_track_index = U32(1)
    /\ sm[Local].cmds = << <<"load", SpotifyId_from_raw(2)>> >>
    /\ sm[Local].state.status = "Play"

\* C8: an empty track_list implies status Stopped.
C8_EmptyListStopped ==
    sm[Local].state.tracks = <<>> => sm[Local].state.status = "Stop"

\* C9: a TrackEnded event on an empty track_list does not fault and issues
\* no Player load.
C9_TrackEndGuarded ==
    (last.op = "TrackEnd" /\ sm[Local].state.tracks = <<>>) =>
        (sm[Local].fault = "none" /\ Loads(sm[Local]) = <<>>)

\* C10: on a non-empty track_list a TrackEnded event sets track_index to
\* (old track_index + 1) mod len(track_list), has the Player load the track
\* at the new index, sets position_ms to 0 and sends one broadcast Notify.
C10_Wraparound ==
    [][(last'.op = "TrackEnd" /\ Len(sm[Local].state.tracks) > 0) =>
          LET m == sm[Local]
              n == sm'[Local]
              k == MathIncMod(m.state.index, Len(m.state.tracks))
          IN  /\ n.fault = "none"
              /\ n.state.index = U32(k)
              /\ k < Len(n.state.tracks)
              /\ n.cmds = << <<"load", m.state.tracks[k + 1]>> >>
              /\ n.state.position_ms = 0
              /\ Len(n.sent) = 1
              /\ IsBroadcastNotify(n.sent[1])]_vars

\* the handoff condition of a frame against the state before process_frame
Demotes(f, m) ==
    /\ f.device_state.is_active
    /\ m.state.is_active
    /\ f.device_state.became_active_at > m.state.became_active_at

IsNotifyTo(frame, to) == frame.typ = "Notify" /\ frame.recipient = to

\* C11 as stated: process_frame on a Hello of peer P sends exactly one frame,
\* a Notify to {P}, and no broadcast.
C11_HelloHandshake_Original ==
    [][(last'.op = "process_frame" /\ last'.frame.typ = "Hello") =>
          LET n == sm'[Local]
          IN  /\ Len(n.sent) = 1
              /\ IsNotifyTo(n.sent[1], {last'.frame.ident})]_vars

\* C11, amended: process_frame on a Hello of peer P sends one Notify to {P}
\* as its last frame; it sends nothing else, except that a Hello which also
\* triggers the active handoff is preceded by the one broadcast Notify of the
\* handoff.
C11_HelloHandshake ==
    [][(last'.op = "process_frame" /\ last'.frame.typ = "Hello") =>
          LET f == last'.frame
              n == sm'[Local]
          IN  IF Demotes(f, sm[Local])
              THEN /\ Len(n.sent) = 2
                   /\ IsBroadcastNotify(n.sent[1])
                   /\ IsNotifyTo(n.sent[2], {f.ident})
              ELSE /\ Len(n.sent) = 1
                   /\ IsNotifyTo(n.sent[1], {f.ident})]_vars

C11_Witness ==
    /\ last.op = "process_frame"
    /\ last.frame.typ = "Hello"
    /\ Len(sm[Local].sent) = 2
    /\ IsNotifyTo(sm[Local].sent[2], {"B"})

\* C12: the device descriptor of every frame sent reports the is_active,
\* became_active_at and volume of the local state at the send.
C12_DescriptorFidelity ==
    LET m == sm[Local]
    IN  m.sent # <<>> =>
            LET d == m.sent[Len(m.sent)].device_state
            IN  /\ d.is_active = m.state.is_active
                /\ d.became_active_at = m.state.became_active_at
                /\ d.volume = m.state.volume

\* the snapshot and update id a Notify carries, against a playback state
Carries(frame, st) ==
    /\ frame.state_update_id = st.update_id
    /\ frame.state.status = st.status
    /\ frame.state.position_ms = st.position_ms
    /\ frame.state.position_measured_at = st.position_measured_at
    /\ frame.state.playing_track_index = st.index
    /\ Len(frame.state.track) = Len(st.tracks)
    /\ \A i \in 1..Len(st.tracks) :
          /\ frame.state.track[i].has_gid
          /\ SpotifyId_from_raw(frame.state.track[i].gid) = st.tracks[i]

\* C13: a Notify carries the update_id and the snapshot of the local state
\* at its send: the last Notify of a handler that of the state the handler
\* ends in, the Notify of the handoff that of the state before the handler
\* with the clock merged, is_active false and status Stopped; a handler that
\* only demotes and notifies ends in exactly that state.
C13_SnapshotFidelity ==
    [][LET m == sm[Local]
           n == sm'[Local]
           k == Len(n.sent)
           demoted == [m.state EXCEPT
                          !.update_id = Max(@, last'.frame.state_update_id),
                          !.is_active = FALSE,
                          !.status = "Stop"]
       IN  /\ (k > 0 /\ n.sent[k].typ = "Notify") => Carries(n.sent[k], n.state)
           /\ (k = 2 /\ last'.op = "process_frame") => Carries(n.sent[1], demoted)
           /\ (k = 1 /\ last'.op = "process_frame" /\ last'.frame.typ \in OtherKinds) =>
                 n.state = demoted]_vars

C13_Witness ==
    /\ last.op = "process_frame"
    /\ last.frame.typ = "Load"
    /\ Len(sm[Local].sent) = 2
    /\ Len(sm[Local].sent[1].state.track) = 3
    /\ Len(sm[Local].sent[2].state.track) = 2
    /\ sm[Local].sent[2].state.playing_track_index = U32(2)

\* C19: every Player load is issued in a state with is_active true.
C19_LoadOnlyWhenActive ==
    Loads(sm[Local]) # <<>> => sm[Local].state.is_active

\* C20 as stated: became_active_at changes only in a step that takes
\* is_active from false to true, a Load, and then to the clock of that step.
C20_BecameActiveAt_Original ==
    [][LET m == sm[Local].state
           n == sm'[Local].state
       IN  /\ n.became_active_at # m.became_active_at =>
                 (~m.is_active /\ n.is_active)
           /\ (~m.is_active /\ n.is_active) =>
                 (/\ last'.op = "process_frame" /\ last'.frame.typ = "Load"
                  /\ n.became_active_at = sm'[Local].clock[2])]_vars

\* C20, amended: became_active_at is assigned only by a Load that finds the
\* endpoint not active when its Load handling starts: a Load processed while
\* is_active is false, or a Load whose frame has just demoted the endpoint in
\* the same process_frame; it is then the value of the clock read for the
\* claim, the second read of that step.  Every other operation leaves it
\* unchanged.
C20_BecameActiveAt ==
    [][LET m == sm[Local].state
           n == sm'[Local].state
           load == last'.op = "process_frame" /\ last'.frame.typ = "Load"
           claims == load /\ (~m.is_active \/ Demotes(last'.frame, sm[Local]))
       IN  /\ claims => (n.is_active /\ n.became_active_at = sm'[Local].clock[2])
           /\ ~claims => n.became_active_at = m.became_active_at
           /\ (~m.is_active /\ n.is_active) => claims]_vars

C20_Witness ==
    /\ last.op = "process_frame"
    /\ last.frame.typ = "Load"
    /\ ~last.frame.device_state.is_active
    /\ sm[Local].state.is_active
    /\ sm[Local].state.became_active_at = 1
    /\ sm[Local].clock # <<>>
    /\ sm[Local].clock[1] = 2

\* C14: poll returns NotReady only after an iteration in which no source
\* produced an event: no Connected event, no frame and no Player event.
C14_TickRepetition ==
    drv.yielded =>
        (~drv.tick.conn /\ ~drv.tick.frame /\ drv.tick.pev = "none")

\* C15: no frame handed to a publisher that exists is lost, when the next
\* flush comes only after several sends.
C15_OutboundDelivery ==
    ~drv.tick.conn => drv.tick.lost = <<>>

\* C16: an iteration handles the connection event, then the inbound frame,
\* then the flush, then the Player event: the frames of one iteration carry
\* increasing sequence numbers in that order, the Hello of a Connected event
\* comes first and below the Notify of a TrackEnd, the frame dispatched
\* was read from the subscription that iteration's handle_connection opened,
\* and the Notify of the TrackEnd is still in flight after the flush.
C16_IntraTickOrdering ==
    LET m == sm[Local]
        k == Len(m.sent)
    IN  /\ \A i, j \in 1..k : i < j => m.sent[i].seq_nr < m.sent[j].seq_nr
        /\ (last.op = "tick" /\ drv.tick.conn) =>
              (k > 0 /\ m.sent[1].typ = "Hello")
        /\ (drv.tick.conn /\ drv.tick.pev = "TrackEnd" /\ m.fault = "none") =>
              /\ k >= 2
              /\ m.sent[k].typ = "Notify"
              /\ m.sent[1].seq_nr < m.sent[k].seq_nr
        /\ (drv.tick.conn /\ drv.tick.frame) => drv.tick.frame_gen = drv.gen
        /\ (drv.tick.pev = "TrackEnd" /\ m.fault = "none") =>
              /\ drv.slot = << <<m.sent[k].seq_nr, drv.gen>> >>
              /\ \A i \in 1..Len(drv.tick.published) :
                    drv.tick.published[i][1] < m.sent[k].seq_nr

C16_Witness ==
    /\ drv.tick.conn
    /\ drv.tick.pev = "TrackEnd"
    /\ sm[Local].fault = "none"
    /\ drv.gen = 2
    /\ Len(sm[Local].sent) = 2

\* C17: every Connected event replaces the subscription and the publisher
\* by new ones and sends exactly one Hello, with no recipient, which the new
\* publisher publishes; alone in its iteration it leaves the playback state
\* as it was; and a publisher, once there, is never absent again.
C17_ConnectionHandling ==
    [][LET m == sm[Local]
           n == sm'[Local]
           d == drv'
       IN  /\ d.connq < drv.connq =>
                 /\ d.tick.conn
                 /\ d.gen = drv.gen + 1
                 /\ n.subscription /\ n.sender
                 /\ Len(SelectSeq(n.sent, LAMBDA f : f.typ = "Hello")) = 1
                 /\ n.sent[1].typ = "Hello"
                 /\ n.sent[1].recipient = {}
                 /\ n.sent[1].seq_nr = m.seq_nr + 1
                 /\ d.tick.published = << <<n.sent[1].seq_nr, d.gen>> >>
                 /\ (~d.tick.frame /\ d.tick.pev = "none") =>
                       (n.state = m.state /\ Len(n.sent) = 1 /\ n.cmds = <<>>)
           /\ m.sender => n.sender]_vars

C17_Witness ==
    /\ last.op = "tick"
    /\ drv.tick.conn
    /\ ~drv.tick.frame
    /\ drv.tick.pev = "none"
    /\ drv.gen = 2
    /\ sm[Local].state.is_active

\* C18: a frame sent while there is no publisher is dropped without fault:
\* the TrackEnd before the first Connected event sends its Notify, which
\* reaches no publisher, and the handler completes.
C18_SendWithoutPublisher ==
    (last.op = "TrackEnd" /\ ~sm[Local].sender) =>
        /\ sm[Local].fault = "none"
        /\ Len(sm[Local].sent) = 1
        /\ sm[Local].sink = <<>>

====
